---- MODULE Spec2Model ----
(***************************************************************************)
(* Model of theme-switcher.py: the comment codec (comment / uncomment),    *)
(* the section-aware rewriter (modify_config_file) and the mode change     *)
(* handler (toggle_theme).                                                 *)
(*                                                                         *)
(* Strings are sequences of one-character strings, so that startswith,     *)
(* replace, strip and lstrip are computed character by character.          *)
(***************************************************************************)
EXTENDS Integers, Sequences, FiniteSets

VARIABLES
    disk,     \* text of the managed file the rewriter is run on
    hist,     \* one record per modify_config_file call: target, lines read, lines written
    fs,       \* file system: expanded path -> [status, text]
    event,    \* the latest SettingChanged signal: [namespace, key, value]
    effects,  \* side effects of the latest toggle_theme call, in order
    raised,   \* the latest toggle_theme call ended by an uncaught exception
    calls,    \* number of signals delivered so far
    codec     \* one line put through the comment codec: [line, ops, outs]

vars == <<disk, hist, fs, event, effects, raised, calls, codec>>

rewriter_vars == <<disk, hist>>

handler_vars == <<fs, event, effects, raised, calls>>

(***************************************************************************)
(* Bounds of the checked inputs                                            *)
(***************************************************************************)
MaxLines == 3          \* lines of an arbitrary (possibly malformed) file
MaxManaged == 2        \* light plus dark lines of a well-formed region
MaxLaterRegions == 1   \* begin ... end blocks after the end marker
MaxEvents == 2   \* signals delivered to the handler
MaxCodecLen == 3       \* characters of a line body put through the codec
MaxCodecOps == 2       \* codec operations applied to one line in a row

(***************************************************************************)
(* class theme(IntEnum)                                                    *)
(***************************************************************************)
light == "light"
dark == "dark"
theme == {light, dark}

(* Optional[theme] = None *)
None == "None"

(* the value of `event` before any signal was delivered *)
NoCodec == [line |-> <<>>, ops |-> <<>>, outs |-> <<>>]

NoEvent == [namespace |-> "", key |-> "", value |-> -1]

(***************************************************************************)
(* The loaded configuration: delimiters and the comment token of the       *)
(* managed file.                                                           *)
(***************************************************************************)
delimiters == [begin |-> <<"B">>, separator |-> <<"S">>, end |-> <<"E">>]

comment_token == <<"#">>

(***************************************************************************)
(* Python str primitives used by the source.                               *)
(***************************************************************************)
Whitespace == {" ", "\t", "\n", "\r"}

startswith(s, p) == Len(s) >= Len(p) /\ SubSeq(s, 1, Len(p)) = p

RECURSIVE lstrip(_)
lstrip(s) == IF s # <<>> /\ Head(s) \in Whitespace THEN lstrip(Tail(s)) ELSE s

RECURSIVE rstrip(_)
rstrip(s) ==
    IF s # <<>> /\ s[Len(s)] \in Whitespace
    THEN rstrip(SubSeq(s, 1, Len(s) - 1))
    ELSE s

strip(s) == rstrip(lstrip(s))

(* s.replace(tok, ""): leftmost non-overlapping occurrences are removed *)
RECURSIVE replace(_, _)
replace(s, tok) ==
    IF s = <<>> THEN <<>>
    ELSE IF startswith(s, tok) THEN replace(SubSeq(s, Len(tok) + 1, Len(s)), tok)
    ELSE <<Head(s)>> \o replace(Tail(s), tok)

(* f.readlines(): split after every "\n"; a last line may lack it *)
RECURSIVE readlines_from(_, _, _)
readlines_from(text, cur, acc) ==
    IF text = <<>> THEN (IF cur = <<>> THEN acc ELSE Append(acc, cur))
    ELSE IF Head(text) = "\n"
         THEN readlines_from(Tail(text), <<>>, Append(acc, Append(cur, "\n")))
         ELSE readlines_from(Tail(text), Append(cur, Head(text)), acc)

readlines(text) == readlines_from(text, <<>>, <<>>)

(* f.writelines(lines): the lines are concatenated *)
RECURSIVE writelines(_)
writelines(lines) ==
    IF lines = <<>> THEN <<>> ELSE Head(lines) \o writelines(Tail(lines))

(***************************************************************************)
(* Comment codec                                                           *)
(***************************************************************************)
comment(line, token) ==
    IF startswith(line, token) THEN line ELSE token \o <<" ">> \o line

uncomment_after_indent(line, token) ==
    IF ~startswith(lstrip(line), token) THEN line
    ELSE lstrip(SubSeq(lstrip(line), Len(token) + 1, Len(lstrip(line))))

uncomment(line, token) ==
    IF ~startswith(line, token) THEN line
    ELSE lstrip(SubSeq(line, Len(token) + 1, Len(line)))

(***************************************************************************)
(* modify_config_file: the loop over enumerate(lines)                      *)
(***************************************************************************)
cleaned_line(line, token) == strip(replace(line, token))

is_begin(line, token) == cleaned_line(line, token) = delimiters.begin

is_separator(section, line, token) ==
    section = light /\ startswith(cleaned_line(line, token), delimiters.separator)

is_end(line, token) == cleaned_line(line, token) = delimiters.end

rewrite_line(line, section, token, t) ==
    IF t = dark
    THEN (IF section = light THEN comment(line, token) ELSE uncomment(line, token))
    ELSE (IF section = dark THEN comment(line, token) ELSE uncomment(line, token))

(* scan_lines with `continue` in place of `break` on the end marker *)
RECURSIVE scan_lines_no_break(_, _, _, _, _)
scan_lines_no_break(lines, i, section, token, t) ==
    IF i > Len(lines) THEN lines
    ELSE IF is_begin(lines[i], token)
         THEN scan_lines_no_break(lines, i + 1, light, token, t)
    ELSE IF is_separator(section, lines[i], token)
         THEN scan_lines_no_break(lines, i + 1, dark, token, t)
    ELSE IF is_end(lines[i], token)
         THEN scan_lines_no_break(lines, i + 1, section, token, t)
    ELSE scan_lines_no_break(
             [lines EXCEPT ![i] = rewrite_line(lines[i], section, token, t)],
             i + 1, section, token, t)

(* scan_lines without the `continue` after a marker: the marker line is
   rewritten like a line of the section it opens *)
RECURSIVE scan_lines_no_skip(_, _, _, _, _)
scan_lines_no_skip(lines, i, section, token, t) ==
    IF i > Len(lines) THEN lines
    ELSE IF is_begin(lines[i], token)
         THEN scan_lines_no_skip(
                  [lines EXCEPT ![i] = rewrite_line(lines[i], light, token, t)],
                  i + 1, light, token, t)
    ELSE IF is_separator(section, lines[i], token)
         THEN scan_lines_no_skip(
                  [lines EXCEPT ![i] = rewrite_line(lines[i], dark, token, t)],
                  i + 1, dark, token, t)
    ELSE IF is_end(lines[i], token)
         THEN lines
    ELSE scan_lines_no_skip(
             [lines EXCEPT ![i] = rewrite_line(lines[i], section, token, t)],
             i + 1, section, token, t)

RECURSIVE scan_lines(_, _, _, _, _)
scan_lines(lines, i, section, token, t) ==
    IF i > Len(lines) THEN lines
    ELSE IF is_begin(lines[i], token)
         THEN scan_lines(lines, i + 1, light, token, t)
    ELSE IF is_separator(section, lines[i], token)
         THEN scan_lines(lines, i + 1, dark, token, t)
    ELSE IF is_end(lines[i], token)
         THEN lines
    ELSE scan_lines([lines EXCEPT ![i] = rewrite_line(lines[i], section, token, t)],
                    i + 1, section, token, t)

(* the list handed to f.writelines for a file whose text is `text` *)
modified_lines(text, token, t) == scan_lines(readlines(text), 1, None, token, t)

(* the file's text after modify_config_file *)
modify_config_file(text, token, t) == writelines(modified_lines(text, token, t))

(***************************************************************************)
(* Input files.  Every line ends with "\n", except possibly the last one.  *)
(***************************************************************************)
SeqUpTo(S, n) == UNION {[1..k -> S] : k \in 0..n}

SeqFromTo(S, m, n) == UNION {[1..k -> S] : k \in m..n}

eol(body) == body \o <<"\n">>

(* ordinary lines: active, indented, blank, commented in several ways *)
ContentBodies ==
    { <<"x">>, <<" ", "x">>, <<>>, <<"#", " ", "x">>, <<"#", "x">>,
      <<"#", "#", "x">>, <<" ", "#", "x">>, <<"#", " ">> }

(* lines of an arbitrary file: ordinary lines and marker lines *)
AnyBodies ==
    { <<"x">>, <<"#", "x">>, <<"#", "#", "x">>, <<" ", "#", "x">>, <<"#", " ">>,
      <<"B">>, <<"#", " ", "B">>, <<"S">>, <<"#", "S", "x">>, <<"E">> }

marker(body, commented) == IF commented THEN <<"#", " ">> \o body ELSE body

Lines(bodies) == {eol(b) : b \in bodies}

(* nothing, or one line before the begin marker *)
Headers == {<<>>} \cup {<<l>> : l \in Lines({ <<"x">>, <<"#", " ", "x">> })}

(* k later blocks of begin, commented line, end *)
RECURSIVE later_regions(_)
later_regions(k) ==
    IF k = 0 THEN <<>>
    ELSE << eol(delimiters.begin), eol(<<"#", "x">>), eol(delimiters.end) >>
             \o later_regions(k - 1)

(* what follows the end marker: later blocks, then nothing or a commented line *)
Trailers ==
    { later_regions(k) \o last :
        k \in 0..MaxLaterRegions, last \in {<<>>, <<eol(<<"#", "x">>)>>} }

(* the light lines and the dark lines of a region: at least one of each *)
Subsections ==
    { p \in SeqFromTo(Lines(ContentBodies), 1, MaxManaged - 1)
             \X SeqFromTo(Lines(ContentBodies), 1, MaxManaged - 1) :
        Len(p[1]) + Len(p[2]) <= MaxManaged }

(* header, begin, light lines, separator, dark lines, end, trailer *)
RegionFiles ==
    { pre \o <<eol(marker(delimiters.begin, c))>> \o p[1]
          \o <<eol(marker(delimiters.separator, c))>> \o p[2]
          \o <<eol(marker(delimiters.end, c))>> \o tl :
        pre \in Headers,
        c \in BOOLEAN,
        p \in Subsections,
        tl \in Trailers }

AnyFiles == SeqUpTo(Lines(AnyBodies), MaxLines)

(* the same text without the terminator of its last line *)
chop(text) ==
    IF text # <<>> /\ text[Len(text)] = "\n" THEN SubSeq(text, 1, Len(text) - 1) ELSE text

(* a region with one more begin line inside its dark subsection *)
NestedBeginFiles ==
    { << eol(delimiters.begin), eol(<<"x">>), eol(delimiters.separator),
         l2, b, l3, eol(delimiters.end) >> :
        l2 \in Lines({<<"x">>, <<"#", " ", "x">>}),
        b \in Lines({delimiters.begin, marker(delimiters.begin, TRUE)}),
        l3 \in Lines({<<"x">>, <<"#", " ", "x">>}) }

InputTexts ==
    {writelines(f) : f \in RegionFiles}
        \cup {writelines(f) : f \in NestedBeginFiles}
        \cup {writelines(f) : f \in AnyFiles}
        \cup {chop(writelines(f)) : f \in AnyFiles}

(***************************************************************************)
(* The rewriter run on one file, and run again on its output               *)
(***************************************************************************)
InitRewrite ==
    /\ disk \in InputTexts
    /\ hist = <<>>
    /\ fs = <<>>
    /\ event = NoEvent
    /\ effects = <<>>
    /\ raised = FALSE
    /\ calls = 0
    /\ codec = NoCodec

call_modify_config_file(t) ==
    /\ disk' = modify_config_file(disk, comment_token, t)
    /\ hist' = Append(hist, [t |-> t,
                             read |-> readlines(disk),
                             written |-> modified_lines(disk, comment_token, t)])
    /\ UNCHANGED <<handler_vars, codec>>

Rewrite(t) ==
    /\ hist = <<>>
    /\ call_modify_config_file(t)

RewriteAgain(t) ==
    /\ Len(hist) = 1
    /\ call_modify_config_file(t)

NextRewrite ==
    \/ \E t \in theme : Rewrite(t)
    \/ \E t \in theme : RewriteAgain(t)

SpecRewrite == InitRewrite /\ [][NextRewrite]_vars

(***************************************************************************)
(* The codec applied to one line: comment and uncomment in any order       *)
(***************************************************************************)
CodecChars == {"#", " ", "x"}

CodecLines ==
    {body \o end : body \in SeqUpTo(CodecChars, MaxCodecLen), end \in {<<>>, <<"\n">>}}

InitCodec ==
    /\ \E line \in CodecLines : codec = [line |-> line, ops |-> <<>>, outs |-> <<>>]
    /\ disk = <<>>
    /\ hist = <<>>
    /\ fs = <<>>
    /\ event = NoEvent
    /\ effects = <<>>
    /\ raised = FALSE
    /\ calls = 0

(* the argument of the next codec call: the line, or the previous result *)
codec_input(c) == IF c.outs = <<>> THEN c.line ELSE c.outs[Len(c.outs)]

Comment ==
    /\ Len(codec.ops) < MaxCodecOps
    /\ codec' = [codec EXCEPT
                    !.ops = Append(@, "comment"),
                    !.outs = Append(@, comment(codec_input(codec), comment_token))]
    /\ UNCHANGED <<rewriter_vars, handler_vars>>

Uncomment ==
    /\ Len(codec.ops) < MaxCodecOps
    /\ codec' = [codec EXCEPT
                    !.ops = Append(@, "uncomment"),
                    !.outs = Append(@, uncomment(codec_input(codec), comment_token))]
    /\ UNCHANGED <<rewriter_vars, handler_vars>>

NextCodec ==
    \/ Comment
    \/ Uncomment

SpecCodec == InitCodec /\ [][NextCodec]_vars

(***************************************************************************)
(* The loaded configuration (Config): commands, managed files, extensions  *)
(***************************************************************************)
commands ==
    [dark_to_light |-> << <<"to-light-1">>, <<"to-light-2">> >>,
     light_to_dark |-> << <<"to-dark-1">>, <<"to-dark-2">> >>]

config_files ==
    << [name |-> "kitty", path |-> <<"$HOME", "kitty.conf">>,
        comment_token |-> comment_token],
       [name |-> "vim", path |-> <<"/etc", "vimrc">>,
        comment_token |-> comment_token] >>

extensions ==
    << [name |-> "blur-my-shell",
        settings |-> << [path |-> "panel/blur", light |-> None, dark |-> "true"],
                        [path |-> "panel/tint", light |-> "1", dark |-> "2"] >>],
       [name |-> "dash",
        settings |-> << [path |-> "shadow", light |-> "on", dark |-> None] >>] >>

(* os.path.expandvars, on a path given as its components *)
environ == [v \in {"$HOME"} |-> "/home/user"]

expandvars(path) ==
    [i \in DOMAIN path |-> IF path[i] \in DOMAIN environ THEN environ[path[i]] ELSE path[i]]

Paths == {expandvars(config_files[i].path) : i \in DOMAIN config_files}

(***************************************************************************)
(* run_command: the command is run and its exit code is returned; no       *)
(* caller looks at the exit code.  rcs[k] is the exit code of the k-th     *)
(* command run by the current handler call.                                *)
(***************************************************************************)
ReturnCodes == {0, 1}

is_run(e) == e.op = "run"

run_command(done, command, rcs) ==
    Append(done, [op |-> "run", command |-> command,
                  returncode |-> rcs[Len(SelectSeq(done, is_run)) + 1]])

(***************************************************************************)
(* modify_config_file on the file system: open(file, "r"), the loop,       *)
(* open(path, "w").  st = [fs, effects, raised].                           *)
(***************************************************************************)
modify_config_file_io(st, file, token, t) ==
    LET path == expandvars(file)
    IN  IF st.fs[file].status = "unreadable"
        THEN [st EXCEPT !.raised = TRUE]
        ELSE IF st.fs[path].status = "readonly"
        THEN [st EXCEPT !.effects = Append(@, [op |-> "read", path |-> file]),
                        !.raised = TRUE]
        ELSE [st EXCEPT
                !.fs[path].text = modify_config_file(st.fs[file].text, token, t),
                !.effects = @ \o << [op |-> "read", path |-> file],
                                    [op |-> "write", path |-> path] >>]

(* for config_file in config.config_files *)
RECURSIVE rewrite_config_files(_, _, _)
rewrite_config_files(st, i, mode) ==
    IF i > Len(config_files) \/ st.raised THEN st
    ELSE LET path == expandvars(config_files[i].path)
         IN  IF st.fs[path].status = "missing"
             THEN rewrite_config_files(st, i + 1, mode)
             ELSE rewrite_config_files(
                      modify_config_file_io(st, path, config_files[i].comment_token, mode),
                      i + 1, mode)

(* run_commands that gives up at the first command that exits non-zero *)
RECURSIVE run_commands_until_failure(_, _, _, _)
run_commands_until_failure(done, list, i, rcs) ==
    IF i > Len(list) THEN done
    ELSE LET now == run_command(done, list[i], rcs)
         IN  IF now[Len(now)].returncode # 0 THEN now
             ELSE run_commands_until_failure(now, list, i + 1, rcs)

(* for command in commands *)
RECURSIVE run_commands(_, _, _, _)
run_commands(done, list, i, rcs) ==
    IF i > Len(list) THEN done
    ELSE run_commands(run_command(done, list[i], rcs), list, i + 1, rcs)

(***************************************************************************)
(* apply_extension_settings                                                *)
(***************************************************************************)
dconf_write(extension, setting, value) ==
    <<"dconf", "write", "/org/gnome/shell/extensions", extension.name, setting.path, value>>

(* apply_settings without the `if value is not None` test *)
RECURSIVE apply_settings_unguarded(_, _, _, _, _)
apply_settings_unguarded(done, extension, j, mode, rcs) ==
    IF j > Len(extension.settings) THEN done
    ELSE LET setting == extension.settings[j]
             value == IF mode = light THEN setting.light ELSE setting.dark
         IN  apply_settings_unguarded(
                 run_command(done, dconf_write(extension, setting, value), rcs),
                 extension, j + 1, mode, rcs)

RECURSIVE apply_settings(_, _, _, _, _)
apply_settings(done, extension, j, mode, rcs) ==
    IF j > Len(extension.settings) THEN done
    ELSE LET setting == extension.settings[j]
             value == IF mode = light THEN setting.light ELSE setting.dark
         IN  IF value # None
             THEN apply_settings(
                      run_command(done, dconf_write(extension, setting, value), rcs),
                      extension, j + 1, mode, rcs)
             ELSE apply_settings(done, extension, j + 1, mode, rcs)

RECURSIVE apply_extension_settings(_, _, _, _)
apply_extension_settings(done, i, mode, rcs) ==
    IF i > Len(extensions) THEN done
    ELSE apply_extension_settings(apply_settings(done, extensions[i], 1, mode, rcs),
                                  i + 1, mode, rcs)

(***************************************************************************)
(* toggle_theme                                                            *)
(***************************************************************************)
APPEARANCE_NAMESPACE == "org.freedesktop.appearance"

COLOR_SCHEME_KEY == "color-scheme"

(* resolve_mode with every non-zero value taken as dark *)
resolve_mode_nonzero_dark(value) == IF value = 0 THEN light ELSE dark

resolve_mode(value) == IF value = 0 THEN light ELSE IF value = 1 THEN dark ELSE None

selected_commands(mode) ==
    IF mode = light THEN commands.dark_to_light ELSE commands.light_to_dark

toggle_theme(files, namespace, key, value, rcs) ==
    LET st0 == [fs |-> files, effects |-> <<>>, raised |-> FALSE]
        mode == resolve_mode(value)
    IN  IF namespace = APPEARANCE_NAMESPACE /\ key = COLOR_SCHEME_KEY
        THEN IF mode = None THEN st0
             ELSE LET st1 == rewrite_config_files(st0, 1, mode)
                  IN  IF st1.raised THEN st1
                      ELSE [st1 EXCEPT !.effects =
                               apply_extension_settings(
                                   run_commands(@, selected_commands(mode), 1, rcs),
                                   1, mode, rcs)]
        ELSE st0

(***************************************************************************)
(* The event loop: one SettingChanged signal at a time, each handled to    *)
(* completion by toggle_theme.                                             *)
(***************************************************************************)
Namespaces == {APPEARANCE_NAMESPACE, "org.gnome.desktop.interface"}

Keys == {COLOR_SCHEME_KEY, "accent-color"}

Values == {0, 1, 2}

(* settings of all extensions *)
RECURSIVE count_settings(_)
count_settings(i) ==
    IF i > Len(extensions) THEN 0 ELSE Len(extensions[i].settings) + count_settings(i + 1)

(* no handler call runs more commands than this *)
MaxCommandRuns ==
    (IF Len(commands.dark_to_light) > Len(commands.light_to_dark)
     THEN Len(commands.dark_to_light) ELSE Len(commands.light_to_dark))
        + count_settings(1)

FileStatus == {"ok", "unreadable", "readonly"}

ManagedTexts ==
    { writelines(<< eol(<<"x">>), eol(delimiters.begin), eol(<<"x">>),
                    eol(delimiters.separator), eol(<<"#", " ", "x">>),
                    eol(delimiters.end), eol(<<"x">>) >>),
      writelines(<< eol(<<"#", " ", "x">>) >>) }

FileStates ==
    {[status |-> "missing", text |-> <<>>]}
        \cup [status : FileStatus, text : ManagedTexts]

Init ==
    /\ fs \in [Paths -> FileStates]
    /\ event = NoEvent
    /\ effects = <<>>
    /\ raised = FALSE
    /\ calls = 0
    /\ disk = <<>>
    /\ hist = <<>>
    /\ codec = NoCodec

SettingChanged(namespace, key, value, rcs) ==
    /\ calls < MaxEvents
    /\ LET st == toggle_theme(fs, namespace, key, value, rcs)
       IN  /\ fs' = st.fs
           /\ effects' = st.effects
           /\ raised' = st.raised
    /\ event' = [namespace |-> namespace, key |-> key, value |-> value]
    /\ calls' = calls + 1
    /\ UNCHANGED <<rewriter_vars, codec>>

Next ==
    \E namespace \in Namespaces, key \in Keys, value \in Values,
       rcs \in [1..MaxCommandRuns -> ReturnCodes] :
        SettingChanged(namespace, key, value, rcs)

Spec == Init /\ [][Next]_vars

(***************************************************************************)
(* Vocabulary of the properties of the rewriter                            *)
(***************************************************************************)
(* the lines read and written by the latest modify_config_file call *)
ran == hist # <<>>

last_t == hist[Len(hist)].t

last_read == hist[Len(hist)].read

last_written == hist[Len(hist)].written

Rows(ls) == 1..Len(ls)

(* least element of a set of row numbers, or the row after the last line *)
Least(S, ls) == IF S = {} THEN Len(ls) + 1 ELSE CHOOSE i \in S : \A j \in S : i <= j

first_begin(ls) == Least({i \in Rows(ls) : is_begin(ls[i], comment_token)}, ls)

first_end(ls) == Least({i \in Rows(ls) : is_end(ls[i], comment_token)}, ls)

separator_prefixed(line) ==
    startswith(cleaned_line(line, comment_token), delimiters.separator)

first_separator(ls) ==
    Least({i \in Rows(ls) : i > first_begin(ls) /\ separator_prefixed(ls[i])}, ls)

(* the scanner's section on arrival at row i *)
RECURSIVE section_at(_, _)
section_at(ls, i) ==
    IF i = 1 THEN None
    ELSE IF is_begin(ls[i - 1], comment_token) THEN light
    ELSE IF is_separator(section_at(ls, i - 1), ls[i - 1], comment_token) THEN dark
    ELSE section_at(ls, i - 1)

(* begin, light lines, one separator, dark lines, end; no other marker inside *)
WellFormed(ls) ==
    /\ first_begin(ls) < first_separator(ls)
    /\ first_separator(ls) < first_end(ls)
    /\ first_end(ls) <= Len(ls)
    /\ \A i \in Rows(ls) :
          (first_begin(ls) < i /\ i < first_end(ls) /\ i # first_separator(ls))
              => ~is_begin(ls[i], comment_token) /\ ~separator_prefixed(ls[i])

LightRows(ls) == {i \in Rows(ls) : first_begin(ls) < i /\ i < first_separator(ls)}

DarkRows(ls) == {i \in Rows(ls) : first_separator(ls) < i /\ i < first_end(ls)}

commented(line) == startswith(line, comment_token)

(* comment state of the lines of a subsection, in file order *)
RECURSIVE states_from(_, _, _)
states_from(ls, i, j) ==
    IF i >= j THEN <<>> ELSE <<commented(ls[i])>> \o states_from(ls, i + 1, j)

light_states(ls) == states_from(ls, first_begin(ls) + 1, first_separator(ls))

dark_states(ls) == states_from(ls, first_separator(ls) + 1, first_end(ls))

(***************************************************************************)
(* C1: every line before the first line recognised as begin is written     *)
(* back unchanged, for either target mode, commented or not.               *)
(***************************************************************************)
C1_LinesBeforeBeginUnchanged ==
    (ran /\ first_begin(last_read) <= Len(last_read)) =>
        LET b == first_begin(last_read)
        IN  \A i \in Rows(last_read) : i < b => last_written[i] = last_read[i]

(***************************************************************************)
(* C2: a file without any begin line is written back identical to its      *)
(* input, for either target mode.                                          *)
(***************************************************************************)
C2_NoBeginFileUnchanged ==
    (ran /\ first_begin(last_read) > Len(last_read)) => last_written = last_read

(***************************************************************************)
(* C3: the first line matching end, and every line after it, is written    *)
(* back unchanged for either target mode, also when a later begin ... end  *)
(* pair follows.                                                           *)
(***************************************************************************)
C3_FromFirstEndUnchanged ==
    ran => LET e == first_end(last_read)
           IN  \A i \in Rows(last_read) : i >= e => last_written[i] = last_read[i]

(* a run to light that rewrote a line before the first end, on a file where
   a later begin, a commented line and a second end follow the first end *)
C3_Witness ==
    /\ ran
    /\ last_t = light
    /\ \E j \in Rows(last_read) :
          j < first_end(last_read) /\ last_written[j] # last_read[j]
    /\ \E k \in Rows(last_read) :
          /\ k > first_end(last_read)
          /\ k + 2 <= Len(last_read)
          /\ is_begin(last_read[k], comment_token)
          /\ commented(last_read[k + 1])
          /\ is_end(last_read[k + 2], comment_token)
          /\ last_written[k + 1] = last_read[k + 1]

(***************************************************************************)
(* C4: after a rewrite for target t of a well-formed region, every line of *)
(* the subsection for t does not start with the comment token and every    *)
(* line of the other subsection starts with it, whatever the lines'        *)
(* starting comment state.                                                 *)
(***************************************************************************)
C4_OneSubsectionActive ==
    (ran /\ WellFormed(last_read)) =>
        LET on == IF last_t = light THEN LightRows(last_read) ELSE DarkRows(last_read)
            off == IF last_t = light THEN DarkRows(last_read) ELSE LightRows(last_read)
        IN  /\ \A i \in on : ~commented(last_written[i])
            /\ \A i \in off : commented(last_written[i])

(***************************************************************************)
(* C5: a second rewrite for the same target mode leaves the file as the    *)
(* first rewrite left it.                                                  *)
(***************************************************************************)
C5_Idempotent ==
    (Len(hist) > 1 /\ last_t = hist[Len(hist) - 1].t)
        => writelines(last_written) = writelines(hist[Len(hist) - 1].written)

(***************************************************************************)
(* C6: for a well-formed region, a rewrite to dark followed by a rewrite   *)
(* to light leaves every managed line commented exactly when it was        *)
(* commented before the two rewrites.  Stated for the regions that start   *)
(* in the light configuration (light lines not commented, dark lines       *)
(* commented), the state a rewrite to light is meant to produce.           *)
(***************************************************************************)
LightConfigured(ls) ==
    /\ \A i \in LightRows(ls) : ~commented(ls[i])
    /\ \A i \in DarkRows(ls) : commented(ls[i])

C6_ModeSymmetry ==
    (/\ Len(hist) = 2
     /\ hist[1].t = dark
     /\ hist[2].t = light
     /\ WellFormed(hist[1].read)
     /\ LightConfigured(hist[1].read))
        => /\ light_states(readlines(disk)) = light_states(hist[1].read)
           /\ dark_states(readlines(disk)) = dark_states(hist[1].read)

(***************************************************************************)
(* C7: for a region whose light lines are uncommented and whose dark lines *)
(* are commented as token + one space, a rewrite to dark prefixes each     *)
(* light line with token + space, removes that prefix from each dark line  *)
(* and leaves all other lines unchanged; a rewrite to light leaves the     *)
(* file unchanged.                                                         *)
(***************************************************************************)
token_space == comment_token \o <<" ">>

ScenarioShape(ls) ==
    /\ WellFormed(ls)
    /\ LightRows(ls) # {}
    /\ DarkRows(ls) # {}
    /\ \A i \in LightRows(ls) : ~commented(ls[i])
    /\ \A i \in DarkRows(ls) : startswith(ls[i], token_space)

C7_ScenarioRewrite ==
    (ran /\ ScenarioShape(last_read)) =>
        IF last_t = dark
        THEN last_written =
                 [i \in Rows(last_read) |->
                     IF i \in LightRows(last_read) THEN token_space \o last_read[i]
                     ELSE IF i \in DarkRows(last_read)
                          THEN SubSeq(last_read[i], Len(token_space) + 1,
                                      Len(last_read[i]))
                          ELSE last_read[i]]
        ELSE last_written = last_read

(***************************************************************************)
(* C8: the line recognised as begin, the separator-prefixed line that      *)
(* moves the scanner from light to dark, and the line recognised as end    *)
(* are written back exactly as read, commented or not, for either target.  *)
(***************************************************************************)
C8_MarkerLinesUnchanged ==
    ran => \A i \in Rows(last_read) :
               (\/ is_begin(last_read[i], comment_token)
                \/ is_end(last_read[i], comment_token)
                \/ is_separator(section_at(last_read, i), last_read[i], comment_token))
                   => last_written[i] = last_read[i]

(* a run over a region whose three marker lines are all commented and
   in which a subsection line was rewritten *)
C8_Witness ==
    /\ ran
    /\ WellFormed(last_read)
    /\ commented(last_read[first_begin(last_read)])
    /\ commented(last_read[first_separator(last_read)])
    /\ commented(last_read[first_end(last_read)])
    /\ section_at(last_read, first_separator(last_read)) = light
    /\ \E i \in LightRows(last_read) \cup DarkRows(last_read) :
          last_written[i] # last_read[i]

(***************************************************************************)
(* Vocabulary of the properties of the handler                             *)
(***************************************************************************)
(* the shell commands of the command lists run by the latest call, in order *)
is_list_command(e) == e.op = "run" /\ e.command[1] # "dconf"

RECURSIVE commands_of(_)
commands_of(es) ==
    IF es = <<>> THEN <<>> ELSE <<Head(es).command>> \o commands_of(Tail(es))

list_commands_run == commands_of(SelectSeq(effects, is_list_command))

(***************************************************************************)
(* C9: toggle_theme has no side effect (no file read or written, no        *)
(* command run, no setting written, no error raised) for every event       *)
(* other than (namespace "org.freedesktop.appearance", key "color-scheme", *)
(* value 0 or 1).                                                          *)
(***************************************************************************)
C9_IgnoredEventNoSideEffect ==
    [][(/\ calls' = calls + 1
        /\ ~(/\ event'.namespace = "org.freedesktop.appearance"
             /\ event'.key = "color-scheme"
             /\ event'.value \in {0, 1}))
           => (fs' = fs /\ effects' = <<>> /\ raised' = FALSE)]_vars

(* an event with the right namespace and key but another value was
   delivered while a managed file was there to be rewritten *)
C9_Witness ==
    /\ calls > 0
    /\ event.namespace = "org.freedesktop.appearance"
    /\ event.key = "color-scheme"
    /\ event.value \notin {0, 1}
    /\ effects = <<>>
    /\ \E p \in Paths : fs[p].status = "ok"

(***************************************************************************)
(* C10: an accepted event with value 1 runs exactly the light_to_dark      *)
(* commands, each once and in declared order, and an accepted event with   *)
(* value 0 runs exactly the dark_to_light commands, each once and in       *)
(* declared order.                                                         *)
(***************************************************************************)
C10_SelectedCommandListRun ==
    (/\ calls > 0
     /\ event.namespace = "org.freedesktop.appearance"
     /\ event.key = "color-scheme"
     /\ event.value \in {0, 1})
        => list_commands_run =
               (IF event.value = 1 THEN commands.light_to_dark
                                   ELSE commands.dark_to_light)

(***************************************************************************)
(* Vocabulary shared by the properties C11 to C18 of the handler           *)
(***************************************************************************)
accepted ==
    /\ calls > 0
    /\ event.namespace = "org.freedesktop.appearance"
    /\ event.key = "color-scheme"
    /\ event.value \in {0, 1}

(* the command list declared for the transition of the latest event *)
declared_commands ==
    IF event.value = 1
    THEN << <<"to-dark-1">>, <<"to-dark-2">> >>
    ELSE << <<"to-light-1">>, <<"to-light-2">> >>

(* the settings-store writes declared for the mode of the latest event *)
declared_writes ==
    IF event.value = 1
    THEN << <<"dconf", "write", "/org/gnome/shell/extensions", "blur-my-shell",
              "panel/blur", "true">>,
            <<"dconf", "write", "/org/gnome/shell/extensions", "blur-my-shell",
              "panel/tint", "2">> >>
    ELSE << <<"dconf", "write", "/org/gnome/shell/extensions", "blur-my-shell",
              "panel/tint", "1">>,
            <<"dconf", "write", "/org/gnome/shell/extensions", "dash",
              "shadow", "on">> >>

all_commands_run == commands_of(SelectSeq(effects, is_run))

is_setting_write(e) == e.op = "run" /\ e.command[1] = "dconf"

setting_writes_run == commands_of(SelectSeq(effects, is_setting_write))

(***************************************************************************)
(* C11: a command that exits non-zero does not change control flow: once   *)
(* a command of an accepted event has exited non-zero, every command of    *)
(* the selected list is still run in order and every extension setting     *)
(* with a value for the mode is still written.                             *)
(***************************************************************************)
C11_FailingCommandDoesNotAbort ==
    (accepted /\ \E k \in DOMAIN effects :
                    effects[k].op = "run" /\ effects[k].returncode # 0)
        => all_commands_run = declared_commands \o declared_writes

(* the first command of the list and the first setting write both exited
   non-zero, and the last setting write was still run *)
C11_Witness ==
    /\ accepted
    /\ \E k \in DOMAIN effects :
          /\ effects[k].op = "run"
          /\ effects[k].command = declared_commands[1]
          /\ effects[k].returncode # 0
    /\ \E k \in DOMAIN effects :
          /\ effects[k].op = "run"
          /\ effects[k].command = declared_writes[1]
          /\ effects[k].returncode # 0
    /\ effects[Len(effects)].command = declared_writes[Len(declared_writes)]

(***************************************************************************)
(* C12: a managed file whose expanded path does not exist is neither read  *)
(* nor written and raises no error, while every other configured file      *)
(* that exists is still rewritten and the commands and the extension       *)
(* settings are still applied.                                             *)
(***************************************************************************)
touched(p) == \E k \in DOMAIN effects : effects[k].op \in {"read", "write"} /\ effects[k].path = p

rewritten(p) == \E k \in DOMAIN effects : effects[k].op = "write" /\ effects[k].path = p

C12_MissingFileSkipped ==
    (accepted /\ \E p \in Paths : fs[p].status = "missing")
        => /\ \A p \in Paths : fs[p].status = "missing" => ~touched(p)
           /\ ~raised
           /\ \A p \in Paths : fs[p].status # "missing" => rewritten(p)
           /\ list_commands_run = declared_commands
           /\ setting_writes_run = declared_writes

(***************************************************************************)
(* C13: when apply_extension_settings is run for the mode m of an accepted *)
(* event, it issues exactly one settings-store write per setting whose     *)
(* value for m is defined, with the path                                   *)
(* /org/gnome/shell/extensions/<extension>/<setting> and that value, in    *)
(* declared order, and none for a setting whose value for m is undefined.  *)
(***************************************************************************)
C13_OneWritePerDefinedSetting ==
    (accepted /\ ~raised) => setting_writes_run = declared_writes

(* light mode: panel/blur (light = None) was not written, the two settings
   with a light value were *)
C13_Witness ==
    /\ accepted
    /\ ~raised
    /\ event.value = 0
    /\ Len(setting_writes_run) = 2
    /\ \A k \in DOMAIN setting_writes_run : setting_writes_run[k][5] # "panel/blur"

(***************************************************************************)
(* C17: an accepted event is handled to completion in three ordered        *)
(* phases: every file rewrite comes before the first command, every        *)
(* command of the selected list before the first setting write, and all    *)
(* three phases finish.                                                    *)
(***************************************************************************)
phase(e) ==
    IF e.op \in {"read", "write"} THEN 1
    ELSE IF e.command[1] # "dconf" THEN 2
    ELSE 3

C17_ThreePhasesToCompletion ==
    accepted
        => /\ \A j, k \in DOMAIN effects : j < k => phase(effects[j]) <= phase(effects[k])
           /\ ~raised
           /\ \A p \in Paths : fs[p].status # "missing" => rewritten(p)
           /\ list_commands_run = declared_commands
           /\ setting_writes_run = declared_writes

(***************************************************************************)
(* C18: a managed file that exists but cannot be read or written is        *)
(* skipped without being fatal: the remaining configured files are still   *)
(* rewritten, the selected commands still run and the extension settings   *)
(* still applied.                                                          *)
(***************************************************************************)
C18_InaccessibleFileNotFatal ==
    (accepted /\ \E p \in Paths : fs[p].status \in {"unreadable", "readonly"})
        => /\ ~raised
           /\ \A p \in Paths : fs[p].status = "ok" => rewritten(p)
           /\ list_commands_run = declared_commands
           /\ setting_writes_run = declared_writes

(***************************************************************************)
(* Vocabulary of the codec properties                                      *)
(***************************************************************************)
(* the argument and the result of the k-th codec call *)
arg(k) == IF k = 1 THEN codec.line ELSE codec.outs[k - 1]

result(k) == codec.outs[k]

endswith(s, p) == Len(s) >= Len(p) /\ SubSeq(s, Len(s) - Len(p) + 1, Len(s)) = p

all_whitespace(s) == \A k \in DOMAIN s : s[k] \in Whitespace

indent(s) == SubSeq(s, 1, Len(s) - Len(lstrip(s)))

(* s with one token taken off its front and the whitespace after it *)
after_token(s) == lstrip(SubSeq(s, Len(comment_token) + 1, Len(s)))

(***************************************************************************)
(* C14: uncomment is idempotent: uncommenting the result of uncomment      *)
(* gives that result again, for every line, lines that start with two or   *)
(* more tokens included.                                                   *)
(***************************************************************************)
C14_UncommentIdempotent ==
    codec.ops = <<"uncomment", "uncomment">> => result(2) = result(1)

(***************************************************************************)
(* C15: comment and uncomment preserve the line terminator: called on a    *)
(* line that ends with the terminator, each returns a line that ends with  *)
(* the terminator, also when the line is only token, whitespace and        *)
(* terminator.                                                             *)
(***************************************************************************)
C15_TerminatorPreserved ==
    \A k \in DOMAIN codec.ops :
        endswith(arg(k), <<"\n">>) => endswith(result(k), <<"\n">>)

(***************************************************************************)
(* C16 (as stated): uncomment ignores leading whitespace when it looks for *)
(* the token: a line whose first non-whitespace characters are the token   *)
(* loses one token and the whitespace after it (its indentation kept or    *)
(* dropped), any other line is returned unchanged.                         *)
(***************************************************************************)
C16_LeadingWhitespaceIgnored ==
    \A k \in DOMAIN codec.ops :
        codec.ops[k] = "uncomment"
            => IF startswith(lstrip(arg(k)), comment_token)
               THEN result(k) \in {after_token(lstrip(arg(k))),
                                   indent(arg(k)) \o after_token(lstrip(arg(k)))}
               ELSE result(k) = arg(k)

(***************************************************************************)
(* C16 (amended): uncomment looks for the token at the first character of  *)
(* the line only: such a line loses exactly one token and all the          *)
(* whitespace that follows it; every other line, an indented commented     *)
(* line included, is returned unchanged.                                   *)
(***************************************************************************)
C16_TokenAtLineStartOnly ==
    \A k \in DOMAIN codec.ops :
        codec.ops[k] = "uncomment"
            => IF Len(arg(k)) >= Len(comment_token)
                  /\ \A j \in DOMAIN comment_token : arg(k)[j] = comment_token[j]
               THEN /\ result(k) = <<>> \/ result(k)[1] \notin Whitespace
                    /\ \E ws \in SeqUpTo(Whitespace, Len(arg(k))) :
                          arg(k) = comment_token \o ws \o result(k)
               ELSE result(k) = arg(k)

(* an indented commented line went through uncomment and came back as it was *)
C16_Witness ==
    /\ codec.ops = <<"uncomment">>
    /\ codec.line = <<" ", "#", "x", "\n">>
    /\ result(1) = codec.line

(***************************************************************************)
(* C19: the scanner only advances before -> light -> dark -> after: begin  *)
(* is recognised in state before only, so a begin line met in light or     *)
(* dark is an ordinary line of that subsection, rewritten per target mode, *)
(* and the lines after it in the dark subsection are still dark lines.     *)
(* Observed on the lines a deactivated subsection must hold afterwards:    *)
(* they are all commented.                                                 *)
(***************************************************************************)
(* the state of the described scanner on arrival at row i *)
RECURSIVE scanner_state(_, _)
scanner_state(ls, i) ==
    IF i = 1 THEN "before"
    ELSE LET s == scanner_state(ls, i - 1)
             line == ls[i - 1]
         IN  IF s = "before" /\ is_begin(line, comment_token) THEN "light"
             ELSE IF s = "light" /\ separator_prefixed(line) THEN "dark"
             ELSE IF s \in {"light", "dark"} /\ is_end(line, comment_token) THEN "after"
             ELSE s

(* row j holds a begin line met inside the light or the dark subsection *)
nested_begin(ls, j) ==
    /\ first_begin(ls) < first_end(ls)
    /\ scanner_state(ls, j) \in {"light", "dark"}
    /\ is_begin(ls[j], comment_token)

(* row i is an ordinary line of the subsection the target deactivates *)
deactivated(ls, i, t) ==
    \/ /\ t = dark
       /\ scanner_state(ls, i) = "light"
       /\ ~separator_prefixed(ls[i])
       /\ ~is_end(ls[i], comment_token)
    \/ /\ t = light
       /\ scanner_state(ls, i) = "dark"
       /\ ~is_end(ls[i], comment_token)

C19_BeginOnlyInBefore ==
    ran => \A j \in Rows(last_read) :
               nested_begin(last_read, j)
                   => \A i \in Rows(last_read) :
                          (i >= j /\ deactivated(last_read, i, last_t))
                              => commented(last_written[i])

(***************************************************************************)
(* C20: a well-formed file with every light line uncommented and every     *)
(* dark line commented as token + one space, rewritten to dark and then to *)
(* light, is byte for byte the original file again, blank and indented     *)
(* light lines included.                                                   *)
(***************************************************************************)
C20_RoundTripDarkLight ==
    (/\ Len(hist) = 2
     /\ hist[1].t = dark
     /\ hist[2].t = light
     /\ ScenarioShape(hist[1].read))
        => disk = writelines(hist[1].read)

====
